---- MODULE Spec2Model ----
(***************************************************************************)
(* A model of sherlock-claude: the ClaudeBot completion client            *)
(* (claude_bot.py), its retry-until-valid controller, the Referee's clue  *)
(* service and final evaluation (referee.py), the investigation loop      *)
(* (investigation.py) and the JSON extraction (utils.py).                 *)
(*                                                                         *)
(* The program is sequential.  Every function in progress has a frame     *)
(* variable (post, pr, ctl, ...) holding its locals and its position; a   *)
(* frame is "idle" when the function is not running, "returned" or        *)
(* "raised" when it has ended and its caller has not yet resumed.  The    *)
(* frames also keep what the function has done so far in this call (the   *)
(* sleeps it took, the statuses it saw), so that a property of one call   *)
(* is a state predicate on the frame that ends it.                        *)
(*                                                                         *)
(* SpecClient and SpecRetry follow the client request by request.         *)
(* SpecReferee, SpecEvaluate and Spec take one client call as one step,   *)
(* computed with the same frame operators from what the endpoint does     *)
(* during the call.  SpecExtract applies the JSON helpers of utils.py to  *)
(* reply texts, character by character.                                   *)
(***************************************************************************)
EXTENDS Integers, Sequences, FiniteSets, TLC

VARIABLES
    messages,           \* ClaudeBot.messages: the transcript, a list of turns
    window_size,        \* ClaudeBot.window_size
    windowed_messages,  \* get_response: the window it selected last
    sent,               \* the "messages" of the payload of the last request built
    post,               \* frame of ClaudeBot._post
    pr,                 \* frame of ClaudeBot._post_response
    ctl,                \* frame of ClaudeBot.get_retry_simple_response
    top,                \* frame of the caller of the methods under study
    referee,            \* the Referee: its clues and its returned_clues
    rank,               \* frame of Referee.provide_best_clue
    choice,             \* frame of Referee.best_choice
    run,                \* frame of Investigation.run
    evaluation,         \* frame of Referee.evaluate_answer
    extract,            \* frame of the caller of eval_json and ret_json
    investigator,       \* the Investigator: its case_information
    artifact            \* the file investigation_results.txt

\* the variables of the Referee, of the investigation, of the extraction and
\* of the Investigator
upper == <<referee, rank, choice, run, evaluation, extract, investigator,
           artifact>>

vars == <<messages, window_size, windowed_messages, sent, post, pr, ctl, top,
          upper>>

----------------------------------------------------------------------------
(* Bounds of the model.                                                    *)

MaxCalls == 3       \* calls the caller makes on one bot
MaxWindow == 2      \* window sizes 0..MaxWindow
MaxBudget == 5      \* max_retries values 0..MaxBudget
MaxProvide == 3     \* calls of provide_best_clue on one Referee

(* Program constants.                                                      *)

delay == 5                  \* _post: delay
post_max_retries == 5       \* _post: max_retries
post_response_retries == 5  \* _post_response: range(5)
post_response_sleep == 5    \* _post_response: time.sleep(5)
retry_base == 5             \* get_retry_simple_response: 5 * ...
default_max_retries == 5    \* get_retry_simple_response: max_retries=5
default_window_size == 1000 \* ClaudeBot.__init__: window_size=1000
rank_tries == 3             \* rank_single_clue: range(3)
default_max_iterations == 1 \* Investigation.__init__: max_iterations = 1

Texts == {"t1", "t2"}       \* reply texts of the endpoint
Prompts == {"p1", "p2"}     \* prompt texts of the callers
NonOk == {500}              \* status codes that are not 200

----------------------------------------------------------------------------
(* Pure helpers.                                                           *)

Min(a, b) == IF a < b THEN a ELSE b

Turn(role, content) == [role |-> role, content |-> content]

\* list[start:] of Python for a start that may be negative or past the end.
PySliceFrom(list, start) ==
    LET n == Len(list)
        s0 == IF start < 0 THEN start + n ELSE start
        s == IF s0 < 0 THEN 0 ELSE IF s0 > n THEN n ELSE s0
    IN  SubSeq(list, s + 1, n)

\* self.messages[-self.window_size:]
WindowOldest(msgs, n) == SubSeq(msgs, 1, Min(n, Len(msgs)))
Window(msgs, n) == PySliceFrom(msgs, 0 - n)

\* self.messages.append({"role": role, "content": content})
add_message_twice(msgs, role, content) ==
    Append(Append(msgs, Turn(role, content)), Turn(role, content))
add_message(msgs, role, content) == Append(msgs, Turn(role, content))

\* get_simple_response: a str prompt becomes one user turn, a list one per item
proc_prompts(prompts) == [i \in DOMAIN prompts |-> Turn("user", prompts[i])]

\* _prepare_messages_with_images for contents without image tags: each turn
\* keeps its role and carries its content as one text part.
prepare_messages(msgs) ==
    [i \in DOMAIN msgs |->
        [role |-> msgs[i].role,
         content |-> <<[type |-> "text", text |-> msgs[i].content]>>]]

\* _post: time.sleep(delay * (attempt+1))
PostBackoffFixed(attempt) == delay
PostBackoff(attempt) == delay * (attempt + 1)

\* _post_response: whether the loop sleeps after the non-200 reply to its
\* attempt number retry; line 178 sleeps after every one of them.
SleepBetweenOnly(retry) == retry > 0
SleepAfterStatus(retry) == TRUE

----------------------------------------------------------------------------
(* Frames.                                                                 *)

IdlePost == [pc |-> "idle", attempt |-> 0, requests |-> 0, slept |-> <<>>,
             status |-> 0, text |-> "", exc |-> "none"]
CallPost == [IdlePost EXCEPT !.pc = "active"]

\* before: the transcript when the call started; conn: whether a request of
\* this call met a connection failure
IdlePR == [pc |-> "idle", retry |-> 0, slept |-> <<>>, statuses |-> <<>>,
           conn |-> FALSE, before |-> <<>>, content |-> "", exc |-> "none"]
CallPR(msgs) == [IdlePR EXCEPT !.pc = "posting", !.before = msgs]

\* text: the prompt; verdicts: what eval_func and process_func of this call
\* can make of a response; calls: get_simple_response calls made; slept: the
\* sleeps taken, in order; last: the attempt that failed last, how it failed
\* and the sleep that followed (-1: none); verdict: what the predicate and the
\* transform made of response
NoFail == [attempt |-> -1, kind |-> "none", wait |-> -1]
IdleCtl == [pc |-> "idle", text |-> "", verdicts |-> {}, attempt |-> 0,
            max_retries |-> 0, calls |-> 0, slept |-> <<>>, last |-> NoFail,
            response |-> "", verdict |-> "none", result |-> <<>>,
            exc |-> "none"]

\* text: the prompt of the call in progress; log: what the calls of
\* provide_best_clue returned, in order
IdleTop == [op |-> "idle", calls |-> 0, text |-> "", ret |-> <<>>, log |-> <<>>,
            exc |-> "none"]

\* index: the clue being ranked; tries: the replies to its ranking prompt that
\* were not JSON; ranked: the rankings collected so far; picked: the clue
\* whose ranking the call that ended last picked (-1: none)
IdleRank == [pc |-> "idle", statement |-> "", index |-> 0, tries |-> 0,
             ranked |-> <<>>, picked |-> -1, exc |-> "none"]

\* k: the candidate action being scored (1..4); ans: the scores so far
IdleChoice == [pc |-> "idle", k |-> 0, ans |-> <<>>, ret |-> "", exc |-> "none"]

\* questions and answers: the case's questions.json and answers.json
NoReferee == [clues |-> <<>>, returned_clues |-> {}, questions |-> <<>>,
              answers |-> <<>>]

\* i: the question being evaluated, from 0; prompts: the evaluation prompts
\* built so far; accepted: the confidence objects the controller has
\* returned; scores are in hundredths of a point
IdleEvaluation == [pc |-> "idle", investigator_answers |-> <<>>, i |-> 0,
                   prompts |-> <<>>, accepted |-> 0,
                   evaluation_results |-> <<>>, total_score |-> 0,
                   exc |-> "none"]

\* fn: the function called last; text and key: its arguments; fragment: what
\* the search selected; ok and record: what eval_json and ret_json returned;
\* round 2 is the extraction from the serialized record of round 1, which
\* first keeps
IdleExtract == [pc |-> "idle", fn |-> "none", text |-> <<>>, key |-> <<>>,
                fragment |-> <<>>, ok |-> FALSE, record |-> <<>>,
                exc |-> "none", round |-> 1, first |-> <<>>]

\* Investigator.case_information as __init__ leaves it (investigator.py
\* 46-55), and the count of newspaper reviews
NoInvestigator == [clues |-> <<>>, clue_path |-> <<>>, newspaper_clues |-> <<>>,
                   newspaper_review_count |-> 0]

\* investigation_results.txt: whether the file exists, what has been written
\* to it since it was opened last, and how often it was opened for writing
NoArtifact == [exists |-> FALSE, written |-> <<>>, opened |-> 0]

IdleRun == [phase |-> "INITIALIZING", pc |-> "idle", iteration |-> 0,
            max_iterations |-> 0, _investigation_complete |-> FALSE,
            investigator_response |-> "", exc |-> "none"]

----------------------------------------------------------------------------
(* ClaudeBot._post (claude_bot.py 123-140): one action per requests.post.  *)

\* requests.post returns a response: it is returned whatever its status.
PostRespond ==
    /\ post.pc = "active"
    /\ \E status \in {200} \cup NonOk, text \in Texts :
          post' = [post EXCEPT !.pc = "returned", !.requests = @ + 1,
                               !.status = status,
                               !.text = IF status = 200 THEN text ELSE ""]
    /\ UNCHANGED <<messages, window_size, windowed_messages, sent, pr, ctl, top, upper>>

\* requests.post raises ConnectionError or ProtocolError: sleep and retry
\* unless this was the last attempt; after the loop, raise "Error in
\* posting." (raising a str is a TypeError).
PostConnectionError ==
    /\ post.pc = "active"
    /\ LET a == post.attempt IN
       post' = [post EXCEPT
                  !.requests = @ + 1,
                  !.slept = IF a < post_max_retries - 1
                               THEN Append(@, PostBackoff(a)) ELSE @,
                  !.attempt = a + 1,
                  !.pc = IF a + 1 < post_max_retries THEN "active" ELSE "raised",
                  !.exc = IF a + 1 < post_max_retries THEN "none" ELSE "TypeError"]
    /\ UNCHANGED <<messages, window_size, windowed_messages, sent, pr, ctl, top, upper>>

----------------------------------------------------------------------------
(* ClaudeBot._post_response (claude_bot.py 143-182), network mode.         *)

\* Lines 160-182: the frame p of _post_response after its call of _post
\* ended in the frame po.  _post raised: nothing here catches it.  Status
\* 200: the content is returned.  Any other status: sleep, and try again
\* unless this was the last attempt of range(5); after the loop, raise.
PostResponseAfter(p, po) ==
    IF po.pc = "raised"
       THEN [p EXCEPT !.pc = "raised", !.exc = po.exc, !.conn = TRUE]
    ELSE IF po.status = 200
       THEN [p EXCEPT !.pc = "returned", !.content = po.text,
                      !.statuses = Append(@, po.status),
                      !.conn = @ \/ po.attempt > 0]
    ELSE [p EXCEPT
            !.statuses = Append(@, po.status),
            !.conn = @ \/ po.attempt > 0,
            !.slept = IF SleepAfterStatus(p.retry)
                        THEN Append(@, post_response_sleep) ELSE @,
            !.retry = @ + 1,
            !.pc = IF p.retry + 1 < post_response_retries
                      THEN "posting" ELSE "raised",
            !.exc = IF p.retry + 1 < post_response_retries
                      THEN "none" ELSE "Exception"]

\* _post returned a response; line 167 appends the content of a 200 reply
\* to the transcript.
PostResponseStatus ==
    /\ pr.pc = "posting"
    /\ post.pc = "returned"
    /\ LET p == PostResponseAfter(pr, post) IN
         /\ pr' = p
         /\ messages' = IF p.pc = "returned"
                           THEN add_message(messages, "assistant", post.text)
                           ELSE messages
         /\ post' = IF p.pc = "posting" THEN CallPost ELSE post
    /\ UNCHANGED <<window_size, windowed_messages, sent, ctl, top, upper>>

\* _post raised.
PostResponsePropagate ==
    /\ pr.pc = "posting"
    /\ post.pc = "raised"
    /\ pr' = PostResponseAfter(pr, post)
    /\ UNCHANGED <<messages, window_size, windowed_messages, sent, post, ctl, top, upper>>

ClientStep ==
    \/ PostRespond
    \/ PostConnectionError
    \/ PostResponseStatus
    \/ PostResponsePropagate

----------------------------------------------------------------------------
(* A caller of one ClaudeBot: get_response and get_simple_response.        *)

\* get_response(prompt, dryrun) (claude_bot.py 97-121)
GetResponse ==
    /\ top.op = "idle"
    /\ top.calls < MaxCalls
    /\ \E prompt \in Prompts, dryrun \in BOOLEAN :
         LET msgs == add_message(messages, "user", prompt)
             win == Window(msgs, window_size)
         IN  /\ messages' = msgs
             /\ windowed_messages' = win
             /\ IF dryrun
                  THEN /\ top' = [top EXCEPT !.calls = @ + 1, !.ret = <<FALSE>>]
                       /\ UNCHANGED <<sent, post, pr>>
                  ELSE /\ top' = [top EXCEPT !.op = "get_response", !.calls = @ + 1,
                                             !.ret = <<>>]
                       /\ sent' = prepare_messages(win)
                       /\ pr' = CallPR(msgs)
                       /\ post' = CallPost
    /\ UNCHANGED <<window_size, ctl, upper>>

\* get_simple_response(prompts) (claude_bot.py 72-94)
GetSimpleResponse ==
    /\ top.op = "idle"
    /\ top.calls < MaxCalls
    /\ \E prompt \in Prompts :
         /\ sent' = prepare_messages(proc_prompts(<<prompt>>))
         /\ top' = [top EXCEPT !.op = "get_simple_response", !.calls = @ + 1,
                               !.ret = <<>>]
         /\ pr' = CallPR(messages)
         /\ post' = CallPost
    /\ UNCHANGED <<messages, window_size, windowed_messages, ctl, upper>>

\* _post_response returned its content to the caller.
CallerReturn ==
    /\ top.op \in {"get_response", "get_simple_response"}
    /\ pr.pc = "returned"
    /\ top' = [top EXCEPT !.op = "idle", !.ret = <<pr.content>>]
    /\ pr' = IdlePR
    /\ post' = IdlePost
    /\ UNCHANGED <<messages, window_size, windowed_messages, sent, ctl, upper>>

\* _post_response raised: the caller has no handler.
CallerAbort ==
    /\ top.op \in {"get_response", "get_simple_response"}
    /\ pr.pc = "raised"
    /\ top' = [top EXCEPT !.op = "aborted", !.exc = pr.exc]
    /\ UNCHANGED <<messages, window_size, windowed_messages, sent, post, pr, ctl, upper>>

InitBot ==
    /\ messages = <<>>
    /\ window_size \in 0..MaxWindow
    /\ windowed_messages = <<>>
    /\ sent = <<>>
    /\ post = IdlePost
    /\ pr = IdlePR
    /\ ctl = IdleCtl
    /\ top = IdleTop
    /\ referee = NoReferee
    /\ rank = IdleRank
    /\ choice = IdleChoice
    /\ run = IdleRun
    /\ evaluation = IdleEvaluation
    /\ extract = IdleExtract
    /\ investigator = NoInvestigator
    /\ artifact = NoArtifact

NextClient ==
    \/ GetResponse
    \/ GetSimpleResponse
    \/ CallerReturn
    \/ CallerAbort
    \/ ClientStep

SpecClient == InitBot /\ [][NextClient]_vars

----------------------------------------------------------------------------
(* ClaudeBot.get_retry_simple_response (claude_bot.py 184-244).            *)
(*                                                                         *)
(* eval_func and process_func are parameters.  What they make of one       *)
(* response is an input of the step that evaluates it:                     *)
(*   accept              eval_func true, process_func returns a value      *)
(*   reject              eval_func false                                   *)
(*   eval_ValueError     eval_func raises ValueError                       *)
(*   null                eval_func true, process_func returns None         *)
(*   process_ValueError  eval_func true, process_func raises ValueError    *)
(*   eval_error, process_error   they raise something else                 *)

Verdicts == {"accept", "reject", "eval_ValueError", "null",
             "process_ValueError", "eval_error", "process_error"}

\* process_func(response), for a response it returns a value for
Transform(response) == <<"processed", response>>

\* line 223: wait_time = 5 * (2 * attempt)
RejectWait(attempt) == retry_base * (2 * attempt)

\* line 239: wait_time = 5 * (2 ** attempt)
RetryWait(attempt) == retry_base * (2 ^ attempt)

\* line 235: the handler around eval_func and process_func catches ValueError;
\* the call of get_simple_response (line 209) is outside the try block.
RetryCatchesAll(where, exc) == exc \in {"ValueError", "Exception"}
RetryCatches(where, exc) == where \in {"eval", "process"} /\ exc = "ValueError"

\* the exception a verdict stands for, and where it is raised
VerdictExc(v) ==
    CASE v \in {"eval_ValueError", "process_ValueError"} -> "ValueError"
      [] v \in {"eval_error", "process_error"} -> "OtherError"
      [] OTHER -> "none"
VerdictWhere(v) ==
    IF v \in {"eval_ValueError", "eval_error", "reject"} THEN "eval" ELSE "process"

\* lines 227-230: the result of process_func is returned unless it is None
ReturnsResultUnchecked(v) == v \in {"accept", "null"}
ReturnsResult(v) == v = "accept"

RetryHeadOffByOne(c) ==
    IF c.attempt <= c.max_retries
       THEN [c EXCEPT !.pc = "calling", !.calls = @ + 1]
       ELSE [c EXCEPT !.pc = "raised", !.exc = "ValueError"]

\* The head of the loop (line 207) with frame c: the next attempt calls
\* get_simple_response (line 209); after the last one, line 244 raises.
RetryHead(c) ==
    IF c.attempt < c.max_retries
       THEN [c EXCEPT !.pc = "calling", !.calls = @ + 1]
       ELSE [c EXCEPT !.pc = "raised", !.exc = "ValueError"]

\* The rest of the loop body (lines 214-241) with frame c0, for a response
\* of which eval_func and process_func make v.
RetryBody(c0, response, v) ==
    LET a == c0.attempt
        c == [c0 EXCEPT !.response = response, !.verdict = v]
    IN  CASE ReturnsResult(v) ->
               \* lines 227-230
               [c EXCEPT !.pc = "returned",
                         !.result = IF v = "null" THEN <<>>
                                    ELSE <<Transform(response)>>]
          [] v = "reject" ->
               \* lines 218-225; eval_func is called a second time on the
               \* same response and gives the same answer
               RetryHead([c EXCEPT
                            !.slept = Append(@, RejectWait(a)),
                            !.last = [attempt |-> a, kind |-> v,
                                      wait |-> RejectWait(a)],
                            !.attempt = a + 1])
          [] RetryCatches(VerdictWhere(v), VerdictExc(v)) \/ v = "null" ->
               \* lines 232-241
               RetryHead([c EXCEPT
                            !.slept = IF a < c.max_retries - 1
                                         THEN Append(@, RetryWait(a)) ELSE @,
                            !.last = [attempt |-> a, kind |-> v,
                                      wait |-> IF a < c.max_retries - 1
                                                 THEN RetryWait(a) ELSE -1],
                            !.attempt = a + 1])
          [] OTHER ->
               \* an exception the handler does not catch
               [c EXCEPT !.pc = "raised", !.exc = VerdictExc(v)]

\* get_simple_response raised exc: line 209 is outside the try block.
RetryClientRaised(c, exc) ==
    IF RetryCatches("client", exc)
       THEN RetryHead([c EXCEPT !.attempt = @ + 1])
       ELSE [c EXCEPT !.pc = "raised", !.exc = exc]

\* get_retry_simple_response(text, eval_func, process_func, max_retries) is
\* entered.
RetryEnter(text, verdicts, M) ==
    RetryHead([IdleCtl EXCEPT !.text = text, !.verdicts = verdicts,
                              !.max_retries = M])

\* Line 209 with the frames of the client: a frame c at "calling" has entered
\* get_simple_response (lines 87-94).
RetryCall(c) ==
    IF c.pc = "calling"
       THEN /\ sent' = prepare_messages(proc_prompts(<<c.text>>))
            /\ pr' = CallPR(messages)
            /\ post' = CallPost
       ELSE /\ sent' = sent
            /\ pr' = IdlePR
            /\ post' = IdlePost

\* get_simple_response returned a response.
RetryEvaluate ==
    /\ ctl.pc = "calling"
    /\ pr.pc = "returned"
    /\ \E v \in ctl.verdicts :
         LET c == RetryBody(ctl, pr.content, v) IN
           /\ ctl' = c
           /\ RetryCall(c)
    /\ UNCHANGED <<messages, window_size, windowed_messages, top, upper>>

\* get_simple_response raised.
RetryPropagate ==
    /\ ctl.pc = "calling"
    /\ pr.pc = "raised"
    /\ LET c == RetryClientRaised(ctl, pr.exc) IN
         /\ ctl' = c
         /\ IF c.pc = "calling" THEN RetryCall(c)
                               ELSE UNCHANGED <<sent, pr, post>>
    /\ UNCHANGED <<messages, window_size, windowed_messages, top, upper>>

RetryStep == RetryEvaluate \/ RetryPropagate

----------------------------------------------------------------------------
(* A caller of get_retry_simple_response with a budget of its choice.      *)

GetRetrySimpleResponse ==
    /\ top.op = "idle"
    /\ top.calls < 1
    /\ \E text \in Prompts, M \in 0..MaxBudget :
         LET c == RetryEnter(text, Verdicts, M) IN
           /\ top' = [top EXCEPT !.op = "get_retry_simple_response",
                                 !.calls = @ + 1, !.text = text, !.ret = <<>>]
           /\ ctl' = c
           /\ RetryCall(c)
    /\ UNCHANGED <<messages, window_size, windowed_messages, upper>>

RetryReturn ==
    /\ top.op = "get_retry_simple_response"
    /\ ctl.pc = "returned"
    /\ top' = [top EXCEPT !.op = "idle", !.ret = ctl.result]
    /\ ctl' = IdleCtl
    /\ UNCHANGED <<messages, window_size, windowed_messages, sent, post, pr, upper>>

RetryAbort ==
    /\ top.op = "get_retry_simple_response"
    /\ ctl.pc = "raised"
    /\ top' = [top EXCEPT !.op = "aborted", !.exc = ctl.exc]
    /\ UNCHANGED <<messages, window_size, windowed_messages, sent, post, pr, ctl, upper>>

\* a bot as ClaudeBot.__init__ leaves it, with the default window
InitRetry ==
    /\ messages = <<>>
    /\ window_size = default_window_size
    /\ windowed_messages = <<>>
    /\ sent = <<>>
    /\ post = IdlePost
    /\ pr = IdlePR
    /\ ctl = IdleCtl
    /\ top = IdleTop
    /\ referee = NoReferee
    /\ rank = IdleRank
    /\ choice = IdleChoice
    /\ run = IdleRun
    /\ evaluation = IdleEvaluation
    /\ extract = IdleExtract
    /\ investigator = NoInvestigator
    /\ artifact = NoArtifact

NextRetry ==
    \/ GetRetrySimpleResponse
    \/ RetryReturn
    \/ RetryAbort
    \/ RetryStep
    \/ ClientStep

SpecRetry == InitRetry /\ [][NextRetry]_vars

----------------------------------------------------------------------------
(* One client call as one step.                                            *)
(*                                                                         *)
(* The Referee and the investigation make client calls by the dozen.       *)
(* Under their specifications a call of get_simple_response is one step    *)
(* whose input is what the endpoint does during the call: a script, the    *)
(* frames in which the successive calls of _post end.  The call is         *)
(* computed from the script with PostResponseAfter, the operator of the    *)
(* step-by-step actions, and its frame is kept only when it raised.  The   *)
(* transcripts are not followed there: the callers use                     *)
(* get_simple_response, which sends the prompt alone (lines 87-94), and    *)
(* nothing in a run reads self.messages; SpecClient is about them.         *)

\* _post ended at its first request with a response
PostReturned(status, text) ==
    [CallPost EXCEPT !.pc = "returned", !.requests = 1, !.status = status,
                     !.text = text]

\* _post ended after its fifth connection failure
PostRaised ==
    [CallPost EXCEPT !.pc = "raised", !.attempt = post_max_retries,
                     !.requests = post_max_retries,
                     !.slept = [i \in 1..(post_max_retries - 1) |->
                                   PostBackoff(i - 1)],
                     !.exc = "TypeError"]

PostRefused == {PostReturned(status, "") : status \in NonOk}
RefusedRuns(k) == [1..k -> PostRefused]

\* What the endpoint does during one call of _post_response, when its 200
\* replies are in replies: it refuses up to five requests in a row (refused)
\* and, unless it refused five, the next request ends _post with an error
\* (fails) or with a 200 reply (text).
EndpointRuns(replies) ==
    [refused : UNION {RefusedRuns(k) : k \in 0..post_response_retries},
     fails : BOOLEAN,
     text : replies]

\* the frames in which the calls of _post of that call end, in order
EndpointScript(e) ==
    IF Len(e.refused) = post_response_retries
       THEN e.refused
       ELSE e.refused \o <<IF e.fails THEN PostRaised
                                     ELSE PostReturned(200, e.text)>>

\* the loop of _post_response (lines 158-182) over a script
RECURSIVE PostResponseRun(_, _)
PostResponseRun(p, script) ==
    IF p.pc # "posting" \/ script = <<>>
       THEN p
       ELSE PostResponseRun(PostResponseAfter(p, Head(script)), Tail(script))

\* get_simple_response(prompt) while the endpoint does e: the frame in which
\* _post_response ends
ClientCall(e) == PostResponseRun(CallPR(<<>>), EndpointScript(e))

\* One pass of the loop of get_retry_simple_response (lines 207-241), the
\* client call included.
RetryAttempt ==
    /\ ctl.pc = "calling"
    /\ \E e \in EndpointRuns(Texts), v \in ctl.verdicts :
       \E p \in {ClientCall(e)} :
         /\ sent' = prepare_messages(proc_prompts(<<ctl.text>>))
         /\ IF p.pc = "raised"
               THEN /\ ctl' = RetryClientRaised(ctl, p.exc)
                    /\ pr' = p
               ELSE /\ ctl' = RetryBody(ctl, p.content, v)
                    /\ pr' = IdlePR
    /\ UNCHANGED <<messages, window_size, windowed_messages, post, top, upper>>

----------------------------------------------------------------------------
(* The Referee's clue service (referee.py 73-102 and 201-257).             *)

\* a clue of the case file: it has a 'location' or an 'informant' key
Clue(key, name) == [key |-> key, name |-> name]

ClueLists ==
    {<<>>,
     <<Clue("location", "docks")>>,
     <<Clue("location", "docks"), Clue("informant", "porter")>>}

Statements == {"s1", "s2"}      \* investigator statements
\* relevance scores in ranking replies: the prompt asks for 0 to 100, the
\* model answers what it answers
Scores == {0, 50, 100, 150}

\* The replies of the endpoint to the ranking prompt of one clue of n: a text
\* that is not JSON, a JSON text that is not an object with the two keys, or
\* an object with an index and a score.  The index is the model's to choose:
\* any integer; those from -1 to n are enough here.
ReplyIndexes(n) == (0 - 1)..n
RankReplies(n) ==
    {[form |-> "invalid", index |-> 0, score |-> 0],
     [form |-> "scalar", index |-> 0, score |-> 0]}
    \cup {[form |-> "object", index |-> i, score |-> s] :
             i \in ReplyIndexes(n), s \in Scores}

\* line 102: the ranking rank_single_clue makes up after three replies that
\* were not JSON
Fallback(index) == [form |-> "object", index |-> index, score |-> 0]

RankingPrompt(statement, index, tries) ==
    [statement |-> statement, index |-> index, reminders |-> tries]

\* sorted(ranked_clues, key=lambda x: x['score'], reverse=True): highest
\* score first, equal scores in the order of the list
RemoveAt(s, k) == SubSeq(s, 1, k - 1) \o SubSeq(s, k + 1, Len(s))
First(S) == CHOOSE i \in S : \A j \in S : i <= j
RECURSIVE SortedByScore(_)
SortedByScore(s) ==
    IF s = <<>>
       THEN <<>>
       ELSE LET k == First({i \in DOMAIN s :
                              \A j \in DOMAIN s : s[j].score <= s[i].score})
            IN  <<s[k]>> \o SortedByScore(RemoveAt(s, k))

\* list[i] of Python for a list of n items: the position it reads, counted
\* from 1, or 0 when it raises IndexError
PyIndex(n, i) ==
    IF 0 <= i /\ i < n THEN i + 1
    ELSE IF 0 - n <= i /\ i < 0 THEN n + i + 1
    ELSE 0

\* what provide_best_clue returns: the model names the clue whose description
\* the result carries by its position in the clue list (clue, from 0) and
\* keeps the index under which it was recorded
DeadEnd == [type |-> "dead_end", location |-> "none", clue |-> -1, index |-> -1]
NoClue == [type |-> "str", location |-> "none", clue |-> -1, index |-> -1]

\* rank_clues, lines 213-214: the ranking of the clue at enumerate index i is
\* the i-th of the list
Enumerated(ranked) ==
    [i \in DOMAIN ranked |-> [index |-> ranked[i].index,
                              score |-> ranked[i].score,
                              asked |-> i - 1]]

\* provide_best_clue, lines 235-257, for the rankings ranked: the Referee
\* after it, its result, the exception it raises and the clue whose ranking
\* it picked (asked, -1 for none)
provide_best_clue(ref, ranked) ==
    IF \E i \in DOMAIN ranked : ranked[i].form = "scalar"
       THEN \* the sort key x['score'] fails on a value that is not an object
            [referee |-> ref, exc |-> "TypeError", ret |-> NoClue, asked |-> -1]
       ELSE LET sorted_clues == SortedByScore(Enumerated(ranked))
                fresh == {i \in DOMAIN sorted_clues :
                            sorted_clues[i].index \notin ref.returned_clues}
            IN  IF fresh = {}
                   THEN [referee |-> ref, exc |-> "none", ret |-> DeadEnd,
                         asked |-> -1]
                   ELSE LET index == sorted_clues[First(fresh)].index
                            asked == sorted_clues[First(fresh)].asked
                            at == PyIndex(Len(ref.clues), index)
                            added == [ref EXCEPT !.returned_clues = @ \cup {index}]
                        IN  IF at = 0
                               THEN [referee |-> added, exc |-> "IndexError",
                                     ret |-> NoClue, asked |-> asked]
                               ELSE [referee |-> added, exc |-> "none",
                                     asked |-> asked,
                                     ret |-> [type |-> ref.clues[at].key,
                                              location |-> ref.clues[at].name,
                                              clue |-> at - 1,
                                              index |-> index]]

\* provide_best_clue(statement) is called with a statement of the set;
\* rank_clues of an empty clue list is empty and lines 232-233 return a str.
ProvideBestClueOf(statements) ==
    /\ top.op = "idle"
    /\ top.calls < MaxProvide
    /\ \E statement \in statements :
         IF referee.clues = <<>>
            THEN /\ top' = [top EXCEPT
                              !.calls = @ + 1, !.text = statement,
                              !.ret = <<NoClue>>,
                              !.log = Append(@, [statement |-> statement,
                                                 ret |-> NoClue])]
                 /\ rank' = rank
            ELSE /\ top' = [top EXCEPT !.op = "provide_best_clue",
                                       !.calls = @ + 1, !.text = statement,
                                       !.ret = <<>>]
                 /\ rank' = [IdleRank EXCEPT !.pc = "ranking",
                                             !.statement = statement]
    /\ UNCHANGED <<messages, window_size, windowed_messages, sent, post, pr, ctl,
                   referee, choice, run,
                   evaluation, extract,
                   investigator, artifact>>

ProvideBestClue == ProvideBestClueOf(Statements)

\* One pass of the loop of rank_single_clue (lines 88-100) for the clue at
\* rank.index: a client call and json.loads of the reply.  A JSON reply, or
\* the third reply that is not, ends the ranking of the clue; the ranking of
\* the last clue ends rank_clues, and provide_best_clue goes on to its end.
RankSingleClue ==
    /\ rank.pc = "ranking"
    /\ \E e \in EndpointRuns(RankReplies(Len(referee.clues))) :
       \E p \in {ClientCall(e)} :
         /\ sent' = prepare_messages(proc_prompts(
                       <<RankingPrompt(rank.statement, rank.index, rank.tries)>>))
         /\ IF p.pc = "raised"
               THEN /\ rank' = [rank EXCEPT !.pc = "raised", !.exc = p.exc]
                    /\ pr' = p
                    /\ UNCHANGED <<referee, top>>
               ELSE LET reply == p.content
                        failed == reply.form = "invalid"
                        done == ~failed \/ rank.tries + 1 = rank_tries
                        ranked == Append(rank.ranked,
                                         IF failed THEN Fallback(rank.index)
                                                   ELSE reply)
                    IN  /\ pr' = IdlePR
                        /\ CASE ~done ->
                                  /\ rank' = [rank EXCEPT !.tries = @ + 1]
                                  /\ UNCHANGED <<referee, top>>
                             [] done /\ Len(ranked) < Len(referee.clues) ->
                                  /\ rank' = [rank EXCEPT !.index = @ + 1,
                                                          !.tries = 0,
                                                          !.ranked = ranked]
                                  /\ UNCHANGED <<referee, top>>
                             [] OTHER ->
                                  \E out \in {provide_best_clue(referee, ranked)} :
                                    /\ referee' = out.referee
                                    /\ IF out.exc = "none"
                                          THEN /\ rank' = [IdleRank EXCEPT
                                                     !.picked = out.asked]
                                               /\ top' = [top EXCEPT
                                                     !.op = "idle",
                                                     !.ret = <<out.ret>>,
                                                     !.log = Append(@,
                                                       [statement |-> rank.statement,
                                                        ret |-> out.ret])]
                                          ELSE /\ rank' = [rank EXCEPT
                                                     !.pc = "raised",
                                                     !.ranked = ranked,
                                                     !.picked = out.asked,
                                                     !.exc = out.exc]
                                               /\ top' = top
    /\ UNCHANGED <<messages, window_size, windowed_messages, post, ctl, choice, run,
                   evaluation, extract,
                   investigator, artifact>>

\* provide_best_clue raised: the caller has no handler.
ProvideAbort ==
    /\ top.op = "provide_best_clue"
    /\ rank.pc = "raised"
    /\ top' = [top EXCEPT !.op = "aborted", !.exc = rank.exc]
    /\ UNCHANGED <<messages, window_size, windowed_messages, sent, post, pr, ctl,
                   referee, rank, choice, run,
                   evaluation, extract,
                   investigator, artifact>>

\* a Referee as Referee.__init__ leaves it, for a case with the clues of one
\* of the lists
InitReferee ==
    /\ messages = <<>>
    /\ window_size = default_window_size
    /\ windowed_messages = <<>>
    /\ sent = <<>>
    /\ post = IdlePost
    /\ pr = IdlePR
    /\ ctl = IdleCtl
    /\ top = IdleTop
    /\ \E clues \in ClueLists : referee = [NoReferee EXCEPT !.clues = clues]
    /\ rank = IdleRank
    /\ choice = IdleChoice
    /\ run = IdleRun
    /\ evaluation = IdleEvaluation
    /\ extract = IdleExtract
    /\ investigator = NoInvestigator
    /\ artifact = NoArtifact

NextReferee ==
    \/ ProvideBestClue
    \/ RankSingleClue
    \/ ProvideAbort

SpecReferee == InitReferee /\ [][NextReferee]_vars

----------------------------------------------------------------------------
(* The clue branch of an iteration (investigation.py 92-98): the Referee's *)
(* provide_best_clue, then Investigator.process_clue (investigator.py      *)
(* 249-274) on what it returned.                                           *)

\* the entry of clue_path (line 258) and the text appended to clues (lines
\* 260-270) for a response: the location and the type it names, and in the
\* text the description, that of the clue at position clue
PathEntry(referee_response) ==
    [location |-> referee_response.location, type |-> referee_response.type]
ClueText(referee_response) ==
    [location |-> referee_response.location, type |-> referee_response.type,
     description |-> referee_response.clue]

\* process_clue: one entry more in clue_path and in clues, whatever the
\* response names and whatever the lists hold
process_clue_once(info, referee_response) ==
    [info EXCEPT
       !.clue_path = Append(@, PathEntry(referee_response)),
       !.clues = IF \E i \in DOMAIN info.clues :
                       info.clues[i] = ClueText(referee_response)
                    THEN @ ELSE Append(@, ClueText(referee_response))]
process_clue(info, referee_response) ==
    [info EXCEPT !.clue_path = Append(@, PathEntry(referee_response)),
                 !.clues = Append(@, ClueText(referee_response))]

\* line 94: the iteration asks the Referee for a clue about the analysis of
\* the investigator, the response to the one before having been processed
ClueBranch ==
    /\ top.ret = <<>>
    /\ ProvideBestClueOf({"analysis"})

\* line 98: provide_best_clue has returned and process_clue takes its
\* response.  The str returned for a case without clues has no
\* ['location']: line 258 raises TypeError before anything is appended.
ProcessClue ==
    /\ top.op = "idle"
    /\ top.ret # <<>>
    /\ LET referee_response == top.ret[1] IN
         IF referee_response.type = "str"
            THEN /\ top' = [top EXCEPT !.op = "aborted", !.exc = "TypeError"]
                 /\ investigator' = investigator
            ELSE /\ top' = [top EXCEPT !.ret = <<>>]
                 /\ investigator' = process_clue(investigator, referee_response)
    /\ UNCHANGED <<messages, window_size, windowed_messages, sent, post, pr, ctl,
                   referee, rank, choice, run, evaluation, extract, artifact>>

NextClues ==
    \/ ClueBranch
    \/ ProcessClue
    \/ RankSingleClue
    \/ ProvideAbort

SpecClues == InitReferee /\ [][NextClues]_vars

----------------------------------------------------------------------------
(* Investigator.process_newspapers (investigator.py 364-425), the          *)
(* newspapers branch of an iteration (investigation.py 84-86).             *)

MaxReviews == 2                 \* calls of process_newspapers on one case
max_newspaper_reviews == 50     \* Investigator.__init__, line 56

\* The controller is called with eval_json and ret_json for the key
\* ['description', 'relevance', 'rationale'], a list: in the pattern it is a
\* character class, and the pattern finds a fragment only in a reply with a
\* key of one character of the class.  Such a reply is accepted or ends in
\* the debugger; every other reply is rejected.
NewspaperVerdicts == {"accept", "reject", "eval_error", "process_error"}

\* Referee has no method compare_clues: line 424 raises AttributeError
compare_clues(clue1, clue2) == [exc |-> "AttributeError", similarity |-> 0]

\* _is_new_clue, lines 417-421: the clues already kept are compared with the
\* new one in their order, and the first comparison ends the loop by its
\* exception
_is_new_clue(newspaper_clues, new_clue) ==
    IF newspaper_clues = <<>>
       THEN [exc |-> "none", new |-> TRUE]
       ELSE [exc |-> compare_clues(new_clue, newspaper_clues[1]).exc,
             new |-> FALSE]

\* process_newspapers(newspapers) is called (lines 365-403): the count of
\* reviews grows; past the maximum the call returns at once, else the
\* controller is entered.
ProcessNewspapers ==
    /\ top.op = "idle"
    /\ top.calls < MaxReviews
    /\ investigator' = [investigator EXCEPT !.newspaper_review_count = @ + 1]
    /\ IF investigator.newspaper_review_count + 1 > max_newspaper_reviews
          THEN /\ top' = [top EXCEPT !.calls = @ + 1,
                                     !.ret = <<<<"maximum", "reached">>>>]
               /\ ctl' = ctl
          ELSE /\ top' = [top EXCEPT !.op = "process_newspapers",
                                     !.calls = @ + 1, !.ret = <<>>]
               /\ ctl' = RetryEnter("newspapers", NewspaperVerdicts,
                                    default_max_retries)
    /\ UNCHANGED <<messages, window_size, windowed_messages, sent, post, pr,
                   referee, rank, choice, run, evaluation, extract, artifact>>

\* Lines 405-415: the controller returned the clue; it is appended when
\* _is_new_clue says so, and returned.
NewspapersFilter ==
    /\ top.op = "process_newspapers"
    /\ ctl.pc = "returned"
    /\ LET response == ctl.result[1]
           is_new == _is_new_clue(investigator.newspaper_clues, response)
       IN  IF is_new.exc # "none"
              THEN /\ top' = [top EXCEPT !.op = "aborted", !.exc = is_new.exc]
                   /\ investigator' = investigator
              ELSE /\ top' = [top EXCEPT !.op = "idle", !.ret = <<response>>]
                   /\ investigator' =
                        IF is_new.new
                           THEN [investigator EXCEPT
                                   !.newspaper_clues = Append(@, response)]
                           ELSE investigator
    /\ ctl' = IdleCtl
    /\ UNCHANGED <<messages, window_size, windowed_messages, sent, post, pr,
                   referee, rank, choice, run, evaluation, extract, artifact>>

\* the controller raised: process_newspapers has no handler
NewspapersAbort ==
    /\ top.op = "process_newspapers"
    /\ ctl.pc = "raised"
    /\ top' = [top EXCEPT !.op = "aborted", !.exc = ctl.exc]
    /\ UNCHANGED <<messages, window_size, windowed_messages, sent, post, pr, ctl,
                   referee, rank, choice, run, evaluation, extract,
                   investigator, artifact>>

NextNewspapers ==
    \/ ProcessNewspapers
    \/ NewspapersFilter
    \/ NewspapersAbort
    \/ RetryAttempt

SpecNewspapers == InitRetry /\ [][NextNewspapers]_vars

----------------------------------------------------------------------------
(* Investigation.run (investigation.py 43-98) over Investigator.analyze_case *)
(* (investigator.py 84-125) and Referee.best_choice (referee.py 150-198),   *)
(* in network mode.                                                         *)

\* best_choice's candidate actions, in the order of its list; the names are
\* the words _conduct_investigation_iteration looks for in the choice
Categories == <<"solution", "newspapers", "informant", "location">>

\* analyze_case calls the controller with its defaults: eval_func is always
\* true and process_func is the identity on a str
AnalysisVerdicts == {"accept"}

\* best_choice calls it with eval_score and ret_json: eval_score is false
\* (no fragment, no JSON, a score outside 0..100), raises ValueError (int()
\* of a score that is no number) or accepts, and the breakpoint in fix_json
\* can end either of them with another exception; ret_json of an accepted
\* response is never None
ScoreVerdicts == {"accept", "reject", "eval_ValueError", "eval_error",
                  "process_error"}

\* response['score'] for the result of ret_json: fix_json (utils.py 42-45,
\* 59) puts every value of the fragment in double quotes, so json.loads
\* gives the score as a str
ScoreOf(result) == [type |-> "str", val |-> result[2]]

\* Lines 190-194 of best_choice: _max_act = 0, then for each key in the
\* order of insertion `if ans[key] > _max_act`, which raises TypeError for a
\* str and an int.
RECURSIVE BestChoiceScanLast(_, _, _)
BestChoiceScanLast(ans, i, st) ==
    IF i > Len(ans) \/ st.exc # "none"
       THEN st
       ELSE BestChoiceScanLast(ans, i + 1,
               IF ans[i].type # "int"
                  THEN [st EXCEPT !.exc = "TypeError"]
               ELSE IF ans[i].val >= st._max_act
                  THEN [st EXCEPT !._max_act = ans[i].val,
                                  !._ret_key = Categories[i]]
               ELSE st)

RECURSIVE BestChoiceScan(_, _, _)
BestChoiceScan(ans, i, st) ==
    IF i > Len(ans) \/ st.exc # "none"
       THEN st
       ELSE BestChoiceScan(ans, i + 1,
               IF ans[i].type # "int"
                  THEN [st EXCEPT !.exc = "TypeError"]
               ELSE IF ans[i].val > st._max_act
                  THEN [st EXCEPT !._max_act = ans[i].val,
                                  !._ret_key = Categories[i]]
               ELSE st)

\* lines 190-198: _ret_key is read at line 196, assigned or not
best_choice(ans) ==
    LET st == BestChoiceScan(ans, 1,
                 [_max_act |-> 0, _ret_key |-> "unbound", exc |-> "none"])
    IN  IF st.exc = "none" /\ st._ret_key = "unbound"
           THEN [st EXCEPT !.exc = "UnboundLocalError"]
           ELSE st

\* run, line 56: the next iteration of the loop starts, and
\* _conduct_investigation_iteration calls investigator.analyze_case, which
\* enters the controller (investigator.py 121).
RunIterate ==
    /\ run.pc = "loop"
    /\ run.iteration < run.max_iterations
    /\ run' = [run EXCEPT !.pc = "analyze_case", !.phase = "ITERATING"]
    /\ ctl' = RetryEnter("analysis", AnalysisVerdicts, default_max_retries)
    /\ UNCHANGED <<messages, window_size, windowed_messages, sent, post, pr, top,
                   referee, rank, choice,
                   evaluation, extract,
                   investigator, artifact>>

\* analyze_case returned the response; referee.best_choice starts with the
\* first candidate action (referee.py 187).
AnalyzeCaseReturn ==
    /\ run.pc = "analyze_case"
    /\ ctl.pc = "returned"
    /\ run' = [run EXCEPT !.pc = "best_choice",
                          !.investigator_response = ctl.response]
    /\ choice' = [IdleChoice EXCEPT !.pc = "scoring", !.k = 1]
    /\ ctl' = RetryEnter(Categories[1], ScoreVerdicts, default_max_retries)
    /\ UNCHANGED <<messages, window_size, windowed_messages, sent, post, pr, top,
                   referee, rank,
                   evaluation, extract,
                   investigator, artifact>>

\* The controller returned the score object of candidate k (line 188); the
\* next candidate is scored, or after the last the highest score is looked
\* for (lines 190-198).
BestChoiceScore ==
    /\ run.pc = "best_choice"
    /\ choice.pc = "scoring"
    /\ ctl.pc = "returned"
    /\ LET ans == Append(choice.ans, ScoreOf(ctl.result[1])) IN
         IF choice.k < Len(Categories)
            THEN /\ choice' = [choice EXCEPT !.k = @ + 1, !.ans = ans]
                 /\ ctl' = RetryEnter(Categories[choice.k + 1], ScoreVerdicts,
                                      default_max_retries)
            ELSE /\ \E st \in {best_choice(ans)} :
                      choice' = [choice EXCEPT
                                   !.ans = ans,
                                   !.pc = IF st.exc = "none" THEN "returned"
                                                             ELSE "raised",
                                   !.ret = st._ret_key,
                                   !.exc = st.exc]
                 /\ ctl' = IdleCtl
    /\ UNCHANGED <<messages, window_size, windowed_messages, sent, post, pr, top,
                   referee, rank, run,
                   evaluation, extract,
                   investigator, artifact>>

\* An exception reached run: neither _conduct_investigation_iteration nor run
\* has a handler, and the process ends with a traceback.
RunAbort ==
    /\ run.pc \in {"analyze_case", "best_choice"}
    /\ ctl.pc = "raised" \/ choice.pc = "raised"
    /\ run' = [run EXCEPT !.phase = "ABORTED", !.pc = "aborted",
                          !.exc = IF ctl.pc = "raised" THEN ctl.exc
                                                       ELSE choice.exc]
    /\ UNCHANGED <<messages, window_size, windowed_messages, sent, post, pr, ctl,
                   top, referee, rank, choice,
                   evaluation, extract,
                   investigator, artifact>>

\* an Investigation as Investigation.__init__ leaves it (lines 38-41), for a
\* case with the clues of one of the lists
Init ==
    /\ messages = <<>>
    /\ window_size = default_window_size
    /\ windowed_messages = <<>>
    /\ sent = <<>>
    /\ post = IdlePost
    /\ pr = IdlePR
    /\ ctl = IdleCtl
    /\ top = IdleTop
    /\ \E clues \in ClueLists : referee = [NoReferee EXCEPT !.clues = clues]
    /\ rank = IdleRank
    /\ choice = IdleChoice
    /\ run = [IdleRun EXCEPT !.pc = "loop", !.max_iterations = default_max_iterations]
    /\ evaluation = IdleEvaluation
    /\ extract = IdleExtract
    /\ investigator = NoInvestigator
    /\ artifact = NoArtifact

Next ==
    \/ RunIterate
    \/ AnalyzeCaseReturn
    \/ BestChoiceScore
    \/ RunAbort
    \/ RetryAttempt

Spec == Init /\ [][Next]_vars

----------------------------------------------------------------------------
(* The run with the breakpoint of fix_json (utils.py 56-57) as a place     *)
(* where it waits.  eval_score calls eval_json, which calls fix_json on    *)
(* the fragment it found, and pdb.set_trace() reads a command from the     *)
(* debugger's input before fix_json goes on.  RetryAttempt takes such an   *)
(* attempt in one step, the command being there already; the two actions   *)
(* below take it in two, with the wait between them.                       *)

\* the calls of the controller whose eval_func goes through fix_json
StopsInDebugger(c) == "eval_error" \in c.verdicts

\* Lines 209-216: the client call returns a response and eval_func stops at
\* the breakpoint.
DebuggerPrompt ==
    /\ ctl.pc = "calling"
    /\ StopsInDebugger(ctl)
    /\ \E e \in EndpointRuns(Texts) :
       \E p \in {ClientCall(e)} :
         /\ p.pc = "returned"
         /\ sent' = prepare_messages(proc_prompts(<<ctl.text>>))
         /\ ctl' = [ctl EXCEPT !.pc = "breakpoint", !.response = p.content]
         /\ pr' = IdlePR
    /\ UNCHANGED <<messages, window_size, windowed_messages, post, top, upper>>

\* The debugger's user gives a command, continue or quit: fix_json goes on or
\* raises BdbQuit, and the rest of the loop body (lines 216-241) runs.
DebuggerCommand ==
    /\ ctl.pc = "breakpoint"
    /\ \E v \in ctl.verdicts : ctl' = RetryBody(ctl, ctl.response, v)
    /\ UNCHANGED <<messages, window_size, windowed_messages, sent, post, pr, top,
                   upper>>

NextLive ==
    \/ Next
    \/ DebuggerPrompt
    \/ DebuggerCommand

\* The program is sequential and takes its next step when it has one, and a
\* call of the endpoint returns or fails: weak fairness of the steps of the
\* program.  Nothing makes the debugger's user type a command.
SpecLive == Init /\ [][NextLive]_vars /\ WF_vars(Next \/ DebuggerPrompt)

\* the same with a user who answers every prompt of the debugger
SpecLiveAnswered == Init /\ [][NextLive]_vars /\ WF_vars(NextLive)

----------------------------------------------------------------------------
(* Referee.evaluate_answer (referee.py 259-304), called on a Referee whose *)
(* case has the questions and answers of InitEvaluate.                     *)

MaxQuestions == 2
Points == {10, 25}              \* point values of the questions

RECURSIVE SeqsUpTo(_, _)
SeqsUpTo(S, n) ==
    IF n = 0 THEN {<<>>}
    ELSE LET shorter == SeqsUpTo(S, n - 1)
         IN  shorter \cup {Append(q, x) : q \in shorter, x \in S}

\* questions.json: each question has its points; answers.json and the
\* investigator's answers matter by their number only
QuestionLists == SeqsUpTo([points : Points], MaxQuestions)
AnswerLists == {[i \in 1..n |-> "answer"] : n \in 0..MaxQuestions}
InvestigatorAnswers ==
    {[i \in 1..n |-> "investigator_answer"] : n \in 0..MaxQuestions}

\* the replies eval_confidence passes judgement on, as eval_score does
ConfidenceVerdicts == ScoreVerdicts

\* result['confidence'] for the result of ret_json: a str, as every value
\* that fix_json has put in double quotes
ConfidenceOf(result) == [type |-> "str", val |-> result[2]]

\* zip(self.questions, self.answers), line 280: as many pairs as the shorter
\* list has
Pairs(ref) == Min(Len(ref.questions), Len(ref.answers))

\* _create_evaluation_prompt(question, answer, investigator_answer), line
\* 283, for the i-th pair of the zip (from 0): what the prompt is made of,
\* each named by its place in its list
EvaluationPrompt(i) == [question |-> i, answer |-> i, investigator_answer |-> i]

\* Lines 281-286 for question i (from 0): investigator_answers['answers'][i]
\* raises IndexError past the end of the list, else the controller is
\* entered with the evaluation prompt.
EvaluateAsk(ev, i) ==
    IF i >= Len(ev.investigator_answers)
       THEN [ev |-> [ev EXCEPT !.pc = "raised", !.i = i, !.exc = "IndexError"],
             ctl |-> IdleCtl]
       ELSE [ev |-> [ev EXCEPT !.pc = "asking", !.i = i,
                               !.prompts = Append(@, EvaluationPrompt(i))],
             ctl |-> RetryEnter("evaluation", ConfidenceVerdicts,
                                default_max_retries)]

\* evaluate_answer(investigator_answers) is called: with no pair to evaluate
\* it returns a total of 0, else it asks about the first question.
EvaluateAnswer ==
    /\ evaluation.pc = "idle"
    /\ \E answers \in InvestigatorAnswers :
         LET ev == [evaluation EXCEPT !.investigator_answers = answers] IN
           IF Pairs(referee) = 0
              THEN /\ evaluation' = [ev EXCEPT !.pc = "returned"]
                   /\ ctl' = ctl
              ELSE \E out \in {EvaluateAsk(ev, 0)} :
                     /\ evaluation' = out.ev
                     /\ ctl' = out.ctl
    /\ UNCHANGED <<messages, window_size, windowed_messages, sent, post, pr, top,
                   referee, rank, choice, run, extract,
                   investigator, artifact>>

\* The controller returned the confidence object of question i.  Line 292
\* divides result['confidence'] by 100: TypeError for a str.  For a number
\* the score is confidence / 100 * points, the result is appended, the total
\* grows by the score (lines 294-295), and the next pair is evaluated or the
\* evaluation is returned (line 304).
EvaluateScore ==
    /\ evaluation.pc = "asking"
    /\ ctl.pc = "returned"
    /\ LET confidence == ConfidenceOf(ctl.result[1])
           points == referee.questions[evaluation.i + 1].points
           ev == [evaluation EXCEPT !.accepted = @ + 1]
       IN  IF confidence.type # "int"
              THEN /\ evaluation' = [ev EXCEPT !.pc = "raised",
                                               !.exc = "TypeError"]
                   /\ ctl' = IdleCtl
              ELSE LET score == confidence.val * points
                       scored == [ev EXCEPT
                                    !.evaluation_results =
                                        Append(@, [points |-> points,
                                                   confidence |-> confidence.val,
                                                   score |-> score]),
                                    !.total_score = @ + score]
                   IN  IF evaluation.i + 1 < Pairs(referee)
                          THEN \E out \in {EvaluateAsk(scored, evaluation.i + 1)} :
                                 /\ evaluation' = out.ev
                                 /\ ctl' = out.ctl
                          ELSE /\ evaluation' = [scored EXCEPT !.pc = "returned"]
                               /\ ctl' = IdleCtl
    /\ UNCHANGED <<messages, window_size, windowed_messages, sent, post, pr, top,
                   referee, rank, choice, run, extract,
                   investigator, artifact>>

\* evaluate_answer has no handler: an exception of the controller or of its
\* own lines reaches its caller.
EvaluateAbort ==
    /\ \/ evaluation.pc = "asking" /\ ctl.pc = "raised"
       \/ evaluation.pc = "raised"
    /\ evaluation' = [evaluation EXCEPT
                        !.pc = "aborted",
                        !.exc = IF ctl.pc = "raised" THEN ctl.exc ELSE @]
    /\ UNCHANGED <<messages, window_size, windowed_messages, sent, post, pr, ctl,
                   top, referee, rank, choice, run, extract,
                   investigator, artifact>>

InitEvaluate ==
    /\ messages = <<>>
    /\ window_size = default_window_size
    /\ windowed_messages = <<>>
    /\ sent = <<>>
    /\ post = IdlePost
    /\ pr = IdlePR
    /\ ctl = IdleCtl
    /\ top = IdleTop
    /\ \E questions \in QuestionLists, answers \in AnswerLists :
         referee = [NoReferee EXCEPT !.questions = questions,
                                     !.answers = answers]
    /\ rank = IdleRank
    /\ choice = IdleChoice
    /\ run = IdleRun
    /\ evaluation = IdleEvaluation
    /\ extract = IdleExtract
    /\ investigator = NoInvestigator
    /\ artifact = NoArtifact

NextEvaluate ==
    \/ EvaluateAnswer
    \/ EvaluateScore
    \/ EvaluateAbort
    \/ RetryAttempt

SpecEvaluate == InitEvaluate /\ [][NextEvaluate]_vars

----------------------------------------------------------------------------
(* Investigation._log_evaluation_results (investigation.py 161-206), called *)
(* with the evaluation that evaluate_answer returned, over                  *)
(* Investigator.final_theory (investigator.py 127-160) in network mode.     *)

Confidences == {50, 100}        \* confidences of the evaluations logged

\* an entry of investigation_results.txt: the four strings written for the
\* i-th evaluation (lines 193-196), or one of the three written at the end
\* (lines 200-202)
QuestionEntry(i, result) ==
    [part |-> "question", of |-> i, score |-> result.score]
TheoryEntry == [part |-> "theory", of |-> 0, score |-> 0]
SolutionEntry == [part |-> "solution", of |-> 0, score |-> 0]
TotalEntry(total_score) == [part |-> "total", of |-> 0, score |-> total_score]

RECURSIVE TotalScore(_)
TotalScore(results) ==
    IF results = <<>> THEN 0
    ELSE results[1].score + TotalScore(Tail(results))

\* The evaluations evaluate_answer builds for n pairs (referee.py 288-295):
\* the object ret_json made of the reply, which has the key 'evaluation' when
\* the reply had it, with the points of the question and the score.
EvaluationResults(questions, n) ==
    {[i \in 1..n |-> [points |-> questions[i].points,
                      confidence |-> confs[i],
                      score |-> confs[i] * questions[i].points,
                      evaluation |-> evals[i]]] :
        confs \in [1..n -> Confidences], evals \in [1..n -> BOOLEAN]}

\* the loop of lines 186-196 up to the first result that cannot be logged:
\* result['evaluation'] at line 189 raises KeyError before anything of that
\* result is written
RECURSIVE Loggable(_, _)
Loggable(results, i) ==
    IF i > Len(results) \/ ~results[i].evaluation
       THEN i - 1
       ELSE Loggable(results, i + 1)

QuestionEntries(results, n) == [i \in 1..n |-> QuestionEntry(i, results[i])]

\* what lines 200-202 write after the loop
Closing(total_score) == <<TheoryEntry, SolutionEntry, TotalEntry(total_score)>>

\* _log_evaluation_results(evaluation) is called (lines 174-198): the
\* evaluation is parsed, the file is opened with "w", the evaluations are
\* written one by one, and final_theory enters the controller.  Only
\* json.JSONDecodeError has a handler (line 204), and evaluate_answer returns
\* json.dumps of a dict, which json.loads parses.
LogEvaluationResults ==
    /\ top.op = "idle"
    /\ top.calls < 1
    /\ evaluation.pc = "returned"
    /\ LET results == evaluation.evaluation_results
           n == Loggable(results, 1)
       IN  /\ artifact' = [exists |-> TRUE,
                           written |-> QuestionEntries(results, n),
                           opened |-> artifact.opened + 1]
           /\ IF n < Len(results)
                 THEN /\ top' = [top EXCEPT !.op = "aborted", !.calls = @ + 1,
                                            !.exc = "KeyError"]
                      /\ ctl' = ctl
                 ELSE /\ top' = [top EXCEPT !.op = "_log_evaluation_results",
                                            !.calls = @ + 1]
                      /\ ctl' = RetryEnter("final_theory", AnalysisVerdicts,
                                           default_max_retries)
    /\ UNCHANGED <<messages, window_size, windowed_messages, sent, post, pr,
                   referee, rank, choice, run, evaluation, extract,
                   investigator>>

\* final_theory returned (line 198): the theory, the solution and the total
\* are written (lines 200-202), and the function returns.
LogFinalTheory ==
    /\ top.op = "_log_evaluation_results"
    /\ ctl.pc = "returned"
    /\ artifact' = [artifact EXCEPT
                      !.written = @ \o Closing(evaluation.total_score)]
    /\ top' = [top EXCEPT !.op = "idle", !.ret = ctl.result]
    /\ ctl' = IdleCtl
    /\ UNCHANGED <<messages, window_size, windowed_messages, sent, post, pr,
                   referee, rank, choice, run, evaluation, extract,
                   investigator>>

\* final_theory raised: the exception is no JSONDecodeError and leaves
\* _log_evaluation_results, _evaluate_investigation and run; the file keeps
\* what was written to it.
LogAbort ==
    /\ top.op = "_log_evaluation_results"
    /\ ctl.pc = "raised"
    /\ top' = [top EXCEPT !.op = "aborted", !.exc = ctl.exc]
    /\ UNCHANGED <<messages, window_size, windowed_messages, sent, post, pr, ctl,
                   referee, rank, choice, run, evaluation, extract,
                   investigator, artifact>>

\* evaluate_answer has returned the evaluation of a case's questions
InitLog ==
    /\ messages = <<>>
    /\ window_size = default_window_size
    /\ windowed_messages = <<>>
    /\ sent = <<>>
    /\ post = IdlePost
    /\ pr = IdlePR
    /\ ctl = IdleCtl
    /\ top = IdleTop
    /\ \E questions \in QuestionLists, answers \in AnswerLists :
         /\ referee = [NoReferee EXCEPT !.questions = questions,
                                        !.answers = answers]
         /\ \E results \in EvaluationResults(questions,
                                             Min(Len(questions), Len(answers))) :
              evaluation = [IdleEvaluation EXCEPT
                              !.pc = "returned",
                              !.investigator_answers =
                                  [i \in 1..Len(results) |-> "investigator_answer"],
                              !.accepted = Len(results),
                              !.evaluation_results = results,
                              !.total_score = TotalScore(results)]
    /\ rank = IdleRank
    /\ choice = IdleChoice
    /\ run = IdleRun
    /\ extract = IdleExtract
    /\ investigator = NoInvestigator
    /\ artifact = NoArtifact

NextLog ==
    \/ LogEvaluationResults
    \/ LogFinalTheory
    \/ LogAbort
    \/ RetryAttempt

SpecLog == InitLog /\ [][NextLog]_vars

----------------------------------------------------------------------------
(* eval_json, ret_json and fix_json (utils.py 36-61 and 219-241) on texts  *)
(* that are sequences of characters.  The regular expressions are matched  *)
(* as the re module matches them: leftmost, greedy or lazy with            *)
(* backtracking; json.loads is the parser of the texts fix_json can give.  *)

Q == "\""
IsWs(c) == c \in {" ", "\n"}            \* the characters \s matches here
Last(S) == CHOOSE i \in S : \A j \in S : j <= i

\* where the run of whitespace (of other characters) that starts at i ends:
\* the position after it
RECURSIVE WsRunEnd(_, _)
WsRunEnd(t, i) ==
    IF i <= Len(t) /\ IsWs(t[i]) THEN WsRunEnd(t, i + 1) ELSE i
RECURSIVE NonWsRunEnd(_, _)
NonWsRunEnd(t, i) ==
    IF i <= Len(t) /\ ~IsWs(t[i]) THEN NonWsRunEnd(t, i + 1) ELSE i

\* the first position from i on that holds c, or 0
FirstAt(t, c, i) ==
    LET S == {q \in i..Len(t) : t[q] = c}
    IN  IF S = {} THEN 0 ELSE First(S)

\* "key"\s*:[^}]+} matches at i, the brace being at e
KeyAt(t, i, key, e) ==
    LET n == Len(key) IN
      /\ i + n + 1 <= Len(t)
      /\ t[i] = Q
      /\ SubSeq(t, i + 1, i + n) = key
      /\ t[i + n + 1] = Q
      /\ LET j == WsRunEnd(t, i + n + 2)
         IN  j + 1 <= e - 1 /\ t[j] = ":"

\* {[^}]+"key"\s*:[^}]+} matched from position p: the fragment, which ends
\* at the first closing brace after p, or <<>> for no match
FragmentFrom(t, p, key) ==
    IF t[p] # "{" THEN <<>>
    ELSE LET e == FirstAt(t, "}", p + 1) IN
           IF e # 0 /\ \E i \in (p + 2)..(e - 1) : KeyAt(t, i, key, e)
              THEN SubSeq(t, p, e)
              ELSE <<>>

\* the positions from which the pattern matches
FragmentStarts(t, key) == {p \in 1..Len(t) : FragmentFrom(t, p, key) # <<>>}

\* re.search(...): the leftmost match, or <<>> for None
Search(t, key) ==
    LET starts == FragmentStarts(t, key)
    IN  IF starts = {} THEN <<>> ELSE FragmentFrom(t, First(starts), key)

\* fix_json, lines 48 and 51: every double quote and backslash is removed
StripChars(t) == SelectSeq(t, LAMBDA c : c \notin {Q, "\\"})

\* line 54, regex.sub(r'(.),([^\n])', r'\1\2'): from position i on
RECURSIVE CommaSub(_, _)
CommaSub(t, i) ==
    IF i > Len(t) THEN <<>>
    ELSE IF /\ i + 2 <= Len(t)
            /\ t[i] # "\n"
            /\ t[i + 1] = ","
            /\ t[i + 2] # "\n"
       THEN <<t[i], t[i + 2]>> \o CommaSub(t, i + 3)
       ELSE <<t[i]>> \o CommaSub(t, i + 1)

\* (,\s*\n|\n}) matched at f: the position after the match, or 0
TermEnd(t, f) ==
    IF f <= Len(t) /\ t[f] = ","
       THEN LET r == WsRunEnd(t, f + 1)
                nl == {q \in (f + 1)..(r - 1) : t[q] = "\n"}
            IN  IF nl = {} THEN 0 ELSE Last(nl) + 1
    ELSE IF f + 1 <= Len(t) /\ t[f] = "\n" /\ t[f + 1] = "}"
       THEN f + 2
       ELSE 0

NoMatch == [a |-> 0, b |-> 0, c |-> 0, d |-> 0, f |-> 0, g |-> 0]

\* (\s*)(.*?)(,\s*\n|\n}) after the colon at c: the whitespace is greedy and
\* gives back, the value is the shortest that reaches a terminator
ValueMatch(t, c) ==
    LET terms(d) == {f \in d..Len(t) : TermEnd(t, f) # 0}
        ds == {d \in (c + 1)..WsRunEnd(t, c + 1) : terms(d) # {}}
    IN  IF ds = {} THEN NoMatch
        ELSE LET d == Last(ds)
                 f == First(terms(d))
             IN  [NoMatch EXCEPT !.c = c, !.d = d, !.f = f, !.g = TermEnd(t, f)]

\* the colons inside the run of non-whitespace that starts at a, from
\* position b down: where a shorter (\S+) can end
RECURSIVE ColonsDown(_, _, _)
ColonsDown(t, b, a) ==
    IF b <= a THEN <<>>
    ELSE (IF t[b] = ":" THEN <<[b |-> b, c |-> b]>> ELSE <<>>)
         \o ColonsDown(t, b - 1, a)

RECURSIVE FirstMatch(_, _, _)
FirstMatch(t, a, cands) ==
    IF cands = <<>> THEN NoMatch
    ELSE LET m == ValueMatch(t, cands[1].c) IN
           IF m.g # 0 THEN [m EXCEPT !.a = a, !.b = cands[1].b]
           ELSE FirstMatch(t, a, Tail(cands))

\* line 59, the pattern (\s*)(\S+)(\s*)(:)(\s*)(.*?)(,\s*\n|\n}) matched from
\* position s: the positions where the key (a), the whitespace after it (b),
\* the colon (c), the value (d) and the terminator (f) start and where the
\* match ends (g).  (\S+) is greedy: the whole run first, then the run up to
\* its last colon, and so on.
PairMatch(t, s) ==
    LET a == WsRunEnd(t, s)
        bmax == NonWsRunEnd(t, a)
        c0 == WsRunEnd(t, bmax)
    IN  IF bmax = a THEN NoMatch
        ELSE FirstMatch(t, a,
                (IF c0 <= Len(t) /\ t[c0] = ":"
                    THEN <<[b |-> bmax, c |-> c0]>> ELSE <<>>)
                \o ColonsDown(t, bmax - 1, a))

\* no_newline, lines 38-39
no_newline(cmd) == [i \in DOMAIN cmd |-> IF cmd[i] = "\n" THEN " " ELSE cmd[i]]

\* replace_func, lines 42-45: the key and the value of the match in double
\* quotes
replace_func(t, s, m) ==
    SubSeq(t, s, m.a - 1) \o <<Q>> \o SubSeq(t, m.a, m.b - 1) \o <<Q>>
    \o SubSeq(t, m.b, m.c - 1) \o <<":">> \o SubSeq(t, m.c + 1, m.d - 1)
    \o <<Q>> \o no_newline(SubSeq(t, m.d, m.f - 1)) \o <<Q>>
    \o SubSeq(t, m.f, m.g - 1)

\* line 59, regex.sub: from position s on
RECURSIVE PairSub(_, _)
PairSub(t, s) ==
    IF s > Len(t) THEN <<>>
    ELSE LET m == PairMatch(t, s) IN
           IF m.g = 0 THEN <<t[s]>> \o PairSub(t, s + 1)
           ELSE replace_func(t, s, m) \o PairSub(t, m.g)

\* fix_json without its breakpoint (lines 56-57), which the callers model
fix_json(text) == PairSub(CommaSub(StripChars(text), 1), 1)

\* json.loads of a string literal at i
NoString == [ok |-> FALSE, s |-> <<>>, next |-> 0]
ParseString(t, i) ==
    IF ~(i <= Len(t) /\ t[i] = Q) THEN NoString
    ELSE LET j == FirstAt(t, Q, i + 1) IN
           IF j = 0 \/ \E q \in (i + 1)..(j - 1) : t[q] \in {"\n", "\\"}
              THEN NoString
              ELSE [ok |-> TRUE, s |-> SubSeq(t, i + 1, j - 1), next |-> j + 1]

\* dict[k] = v: a key keeps its place and takes the last value
DictSet(rec, k, v) ==
    IF \E i \in DOMAIN rec : rec[i][1] = k
       THEN [i \in DOMAIN rec |-> IF rec[i][1] = k THEN <<k, v>> ELSE rec[i]]
       ELSE Append(rec, <<k, v>>)

\* the members of an object from position i on, up to its closing brace
NoRecord == [ok |-> FALSE, rec |-> <<>>, next |-> 0]
RECURSIVE ParsePairs(_, _, _)
ParsePairs(t, i, rec) ==
    LET k == ParseString(t, i)
        i1 == WsRunEnd(t, k.next)
        v == ParseString(t, WsRunEnd(t, i1 + 1))
        i3 == WsRunEnd(t, v.next)
    IN  IF ~k.ok \/ ~(i1 <= Len(t) /\ t[i1] = ":") \/ ~v.ok \/ i3 > Len(t)
           THEN NoRecord
        ELSE IF t[i3] = ","
           THEN ParsePairs(t, WsRunEnd(t, i3 + 1), DictSet(rec, k.s, v.s))
        ELSE IF t[i3] = "}"
           THEN [ok |-> TRUE, rec |-> DictSet(rec, k.s, v.s), next |-> i3 + 1]
        ELSE NoRecord

\* json.loads for the texts fix_json gives: what parses is an object whose
\* values are strings (fix_json leaves no other value in quotes-free form
\* next to a quoted key); ok is false for JSONDecodeError
Loads(t) ==
    LET i == WsRunEnd(t, 1) IN
      IF ~(i <= Len(t) /\ t[i] = "{") THEN NoRecord
      ELSE LET i1 == WsRunEnd(t, i + 1)
               obj == IF i1 <= Len(t) /\ t[i1] = "}"
                         THEN [ok |-> TRUE, rec |-> <<>>, next |-> i1 + 1]
                         ELSE ParsePairs(t, i1, <<>>)
           IN  IF obj.ok /\ WsRunEnd(t, obj.next) = Len(t) + 1
                  THEN obj ELSE NoRecord

\* json.dumps(record) and json.dumps(record, indent=1)
RECURSIVE DumpMembers(_, _, _)
DumpMembers(rec, n, indent) ==
    IF n > Len(rec) THEN <<>>
    ELSE (IF n > 1 THEN (IF indent THEN <<",">> ELSE <<",", " ">>) ELSE <<>>)
         \o (IF indent THEN <<"\n", " ">> ELSE <<>>)
         \o <<Q>> \o rec[n][1] \o <<Q, ":", " ", Q>> \o rec[n][2] \o <<Q>>
         \o DumpMembers(rec, n + 1, indent)
Dumps(rec, indent) ==
    IF rec = <<>> THEN <<"{", "}">>
    ELSE <<"{">> \o DumpMembers(rec, 1, indent)
         \o (IF indent THEN <<"\n">> ELSE <<>>) \o <<"}">>

\* eval_json and ret_json when the debugger lets fix_json go on
eval_json(json_string, key) ==
    LET fragment == Search(json_string, key)
    IN  fragment # <<>> /\ Loads(fix_json(fragment)).ok
ret_json(json_string, key) ==
    LET fragment == Search(json_string, key)
        loaded == Loads(fix_json(fragment))
    IN  IF fragment = <<>> THEN [exc |-> "AttributeError", record |-> <<>>]
        ELSE IF ~loaded.ok THEN [exc |-> "JSONDecodeError", record |-> <<>>]
        ELSE [exc |-> "none", record |-> loaded.rec]

\* the model's replies: what stands in a reply around and instead of the JSON
\* object the prompts ask for
Str(w) == <<Q>> \o w \o <<Q>>
Member(k, v) == Str(k) \o <<":", " ">> \o v
OnLine(member) == <<"\n", " ">> \o member
Object(first, second) ==
    <<"{">> \o OnLine(first) \o <<",">> \o OnLine(second) \o <<"\n", "}">>
TheKey == <<"k">>
Pieces ==
    {Object(Member(TheKey, <<"1">>), Member(<<"o">>, Str(<<"a">>))),
     Object(Member(TheKey, <<"9">>), Member(<<"o">>, Str(<<"b">>))),
     Object(Member(<<"o">>, Str(<<"a", ",", "b", ",", "b">>)),
            Member(TheKey, <<"1">>)),
     <<"{">> \o Member(TheKey, <<"1">>) \o <<"}">>,
     <<"{", " ">> \o Member(TheKey, <<"1">>) \o <<",", " ">>
         \o Member(<<"o">>, Str(<<"a">>)) \o <<" ", "}">>,
     <<"{">> \o OnLine(Member(<<"o">>, Str(<<"a">>))) \o <<"\n", "}">>,
     <<"a", " ">>,
     <<"{">> \o OnLine(Member(<<"o">>, <<"{">>))
         \o OnLine(Member(TheKey, <<"1">>)) \o <<"\n", "}">>}
MaxPieces == 2
RECURSIVE Concat(_)
Concat(ps) == IF ps = <<>> THEN <<>> ELSE ps[1] \o Concat(Tail(ps))
ReplyTexts == {Concat(ps) : ps \in SeqsUpTo(Pieces, MaxPieces)}

\* pdb.set_trace() in fix_json: the debugger lets the call go on, or it is
\* quit (by the user, or at the end of its input) and raises BdbQuit
Debugger == {"continue", "quit"}

\* eval_json(text, key), lines 219-234: only JSONDecodeError is caught
EvalJson ==
    /\ extract.pc = "idle"
    /\ LET fragment == Search(extract.text, extract.key) IN
         IF fragment = <<>>
            THEN extract' = [extract EXCEPT !.pc = "evaluated", !.ok = FALSE,
                                            !.fn = "eval_json",
                                            !.fragment = <<>>]
            ELSE \E debugger \in Debugger :
                   extract' =
                     IF debugger = "quit"
                        THEN [extract EXCEPT !.pc = "raised", !.exc = "BdbQuit",
                                             !.fn = "eval_json",
                                             !.fragment = fragment]
                        ELSE [extract EXCEPT
                                !.pc = "evaluated",
                                !.fn = "eval_json",
                                !.ok = Loads(fix_json(fragment)).ok,
                                !.fragment = fragment]
    /\ UNCHANGED <<messages, window_size, windowed_messages, sent, post, pr, ctl,
                   top, referee, rank, choice, run, evaluation,
                   investigator, artifact>>

\* ret_json(text, key), lines 236-241, called as every caller calls it: on a
\* text eval_json has accepted
RetJson ==
    /\ extract.pc = "evaluated"
    /\ extract.ok
    /\ \E debugger \in Debugger :
         extract' =
           IF debugger = "quit"
              THEN [extract EXCEPT !.pc = "raised", !.exc = "BdbQuit",
                                   !.fn = "ret_json"]
              ELSE LET out == ret_json(extract.text, extract.key) IN
                     [extract EXCEPT
                        !.fn = "ret_json",
                        !.pc = IF out.exc = "none" THEN "extracted" ELSE "raised",
                        !.exc = out.exc,
                        !.record = out.record]
    /\ UNCHANGED <<messages, window_size, windowed_messages, sent, post, pr, ctl,
                   top, referee, rank, choice, run, evaluation,
                   investigator, artifact>>

\* the record is serialized again with json.dumps, on one line or indented,
\* and the extraction is run on that text
Reserialize ==
    /\ extract.pc = "extracted"
    /\ extract.round = 1
    /\ \E indent \in BOOLEAN :
         extract' = [extract EXCEPT
                       !.pc = "idle", !.fn = "none", !.round = 2,
                       !.first = extract.record,
                       !.text = Dumps(extract.record, indent),
                       !.ok = FALSE, !.record = <<>>, !.fragment = <<>>]
    /\ UNCHANGED <<messages, window_size, windowed_messages, sent, post, pr, ctl,
                   top, referee, rank, choice, run, evaluation,
                   investigator, artifact>>

InitExtract ==
    /\ messages = <<>>
    /\ window_size = default_window_size
    /\ windowed_messages = <<>>
    /\ sent = <<>>
    /\ post = IdlePost
    /\ pr = IdlePR
    /\ ctl = IdleCtl
    /\ top = IdleTop
    /\ referee = NoReferee
    /\ rank = IdleRank
    /\ choice = IdleChoice
    /\ run = IdleRun
    /\ evaluation = IdleEvaluation
    /\ \E text \in ReplyTexts :
         extract = [IdleExtract EXCEPT !.text = text, !.key = TheKey]
    /\ investigator = NoInvestigator
    /\ artifact = NoArtifact

NextExtract ==
    \/ EvalJson
    \/ RetJson
    \/ Reserialize

SpecExtract == InitExtract /\ [][NextExtract]_vars

----------------------------------------------------------------------------
(* Properties of the completion client, under SpecClient.                  *)

Range(seq) == {seq[i] : i \in DOMAIN seq}
LinearSleeps(k) == [i \in 1..k |-> delay * i]

\* C8: _post sends at most 5 requests per call; after the k-th consecutive
\* connection failure (k = 1..4) it has slept 5 * k seconds and retries; the
\* first request that completes ends the call with its response, whatever
\* the status; the 5th connection failure ends it with an error and no
\* response, and that error reaches the caller.
C8_PostBounded ==
    /\ post.requests <= post_max_retries
    /\ post.pc = "active" =>
          /\ post.requests = post.attempt
          /\ post.attempt < post_max_retries
          /\ post.slept = LinearSleeps(post.attempt)
    /\ post.pc = "returned" =>
          /\ post.requests = post.attempt + 1
          /\ post.slept = LinearSleeps(post.attempt)
          /\ post.status \in {200} \cup NonOk
    /\ post.pc = "raised" =>
          /\ post.requests = post_max_retries
          /\ post.slept = LinearSleeps(post_max_retries - 1)
          /\ post.status = 0
          /\ post.exc = "TypeError"
    /\ top.op = "aborted" /\ post.pc = "raised" => top.exc = post.exc

C8_Witness ==
    /\ top.op = "aborted"
    /\ post.pc = "raised"
    /\ post.slept = <<5, 10, 15, 20>>

\* C6 as stated: after the statuses 500, 500, 500, 200 (no connection
\* failure) _post_response returns the text of the 200 reply and has slept
\* exactly twice.
C6_SleptTwice ==
    (pr.pc = "returned" /\ pr.statuses = <<500, 500, 500, 200>> /\ ~pr.conn) =>
        /\ pr.content = post.text
        /\ Len(pr.slept) + Len(post.slept) = 2

\* C6 amended: after the statuses 500, 500, 500, 200 (no connection failure)
\* _post_response returns the text of the 200 reply and has slept exactly
\* three times, 5 seconds after each 500.
C6_SleptThrice ==
    (pr.pc = "returned" /\ pr.statuses = <<500, 500, 500, 200>> /\ ~pr.conn) =>
        /\ pr.content = post.text
        /\ post.status = 200
        /\ post.slept = <<>>
        /\ pr.slept = <<5, 5, 5>>

C6_Witness ==
    pr.pc = "returned" /\ pr.statuses = <<500, 500, 500, 200>> /\ ~pr.conn

\* C9: a _post_response call has appended exactly one assistant turn holding
\* the reply text when it returns a 200 payload; until then, after every
\* non-200 attempt, and when it ends in an error, the transcript is as it
\* was when the call started.
C9_TranscriptEffect ==
    /\ pr.pc \in {"posting", "raised"} => messages = pr.before
    /\ pr.pc = "returned" =>
          /\ post.status = 200
          /\ messages = Append(pr.before, Turn("assistant", post.text))
          /\ pr.content = post.text

C9_Witness ==
    /\ pr.pc = "returned"
    /\ Len(pr.statuses) >= 2
    /\ pr.before # <<>>

\* C10: the window get_response selects holds at most window_size turns: it
\* is the last min(window_size, L) turns of the transcript of length L.
LastTurns(msgs, k) == SubSeq(msgs, Len(msgs) - k + 1, Len(msgs))
C10_WindowBounded ==
    /\ Len(windowed_messages) <= window_size
    /\ (top.op = "get_response" /\ pr.pc = "posting") =>
          windowed_messages = LastTurns(messages, Min(window_size, Len(messages)))

\* the payloads that carry a suffix of the transcript msgs
SuffixPayloads(msgs) ==
    {prepare_messages(LastTurns(msgs, k)) : k \in 0..Len(msgs)}

\* C18 as stated: the payload of every request in flight carries a suffix of
\* the sender's transcript, whichever method sent it.
C18_SuffixOnly ==
    pr.pc = "posting" => sent \in SuffixPayloads(messages)

\* C18, amended: a request of get_response carries a suffix of the
\* transcript, the last min(N, L) turns when the window size N is at least
\* 1; a request of get_simple_response carries one user turn made of the
\* prompt and nothing of the transcript, and the transcript is as it was
\* before the call: the prompt is sent without being recorded.
C18_Payloads ==
    pr.pc = "posting" =>
        /\ top.op = "get_response" =>
              /\ sent \in SuffixPayloads(messages)
              /\ window_size >= 1 =>
                    sent = prepare_messages(
                              LastTurns(messages, Min(window_size, Len(messages))))
        /\ top.op = "get_simple_response" =>
              /\ \E prompt \in Prompts :
                    sent = prepare_messages(<<Turn("user", prompt)>>)
              /\ messages = pr.before

\* a request of get_simple_response in flight whose turn is not the last
\* turn of a transcript of two turns
C18_Witness ==
    /\ pr.pc = "posting"
    /\ top.op = "get_simple_response"
    /\ Len(messages) = 2
    /\ sent \notin SuffixPayloads(messages)

----------------------------------------------------------------------------
(* Properties of get_retry_simple_response, under SpecRetry.               *)

\* C2: one invocation with budget max_retries calls get_simple_response at
\* most max_retries times, whatever the outcomes of the attempts.
C2_CallsBounded == ctl.calls <= ctl.max_retries

C2_Witness ==
    /\ ctl.pc = "raised"
    /\ ctl.exc = "ValueError"
    /\ ctl.max_retries = default_max_retries
    /\ ctl.calls = ctl.max_retries

C4_ExponentialSleep ==
    ctl.last.wait # -1 => ctl.last.wait = retry_base * (2 ^ ctl.last.attempt)

\* C5 as stated: the sleeps of one invocation are strictly increasing.
C5_StrictlyIncreasing ==
    \A i \in 1..(Len(ctl.slept) - 1) : ctl.slept[i] < ctl.slept[i + 1]

\* the invocation has used up its budget: line 244 has raised
Exhausted ==
    /\ ctl.pc = "raised"
    /\ ctl.exc = "ValueError"
    /\ ctl.attempt = ctl.max_retries
    /\ ctl.max_retries >= 1

\* C30 as stated: no sleep follows the failure of the final attempt, be it a
\* rejection by the predicate or a null or ValueError of the transform, so
\* an invocation that used up its budget has slept max_retries - 1 times.
C30_NoFinalSleep ==
    Exhausted =>
        /\ ctl.last.attempt = ctl.max_retries - 1
        /\ ctl.last.wait = -1
        /\ Len(ctl.slept) = ctl.max_retries - 1

----------------------------------------------------------------------------
(* Properties of the clue service, under SpecReferee.                      *)

Served == {i \in DOMAIN top.log : top.log[i].ret.clue >= 0}

\* C1 as stated: over the calls of provide_best_clue on one Referee no clue
\* is returned twice: two calls that return a clue return different clues.
C1_NoClueTwice ==
    \A i, j \in Served : i # j => top.log[i].ret.clue # top.log[j].ret.clue

\* the clues handed out by the calls before the i-th
ServedBefore(i) == {top.log[j].ret.clue : j \in {k \in Served : k < i}}

\* C12 as stated, for the calls on a Referee that has clues: a call returns
\* the dead_end marker exactly when every clue was handed out by an earlier
\* call; otherwise it returns a clue that no earlier call handed out, and
\* that clue is marked in returned_clues.
C12_BestUnreturned ==
    \A i \in DOMAIN top.log :
        LET ret == top.log[i].ret
            every == 0..(Len(referee.clues) - 1)
        IN  ret.type # "str" =>
              /\ ret = DeadEnd <=> ServedBefore(i) = every
              /\ ret # DeadEnd => /\ ret.clue \notin ServedBefore(i)
                                  /\ ret.clue \in referee.returned_clues

\* C28 as stated: every index in returned_clues is an index of the clue
\* list, and the index a call has added is that of the clue whose ranking
\* it picked, whatever index the ranking replies report.
C28_ValidIndex ==
    /\ \A i \in referee.returned_clues : 0 <= i /\ i < Len(referee.clues)
    /\ (top.ret # <<>> /\ top.ret[1].clue >= 0) => top.ret[1].index = rank.picked

\* C25 as stated, for the relevance scores: every ranking rank_single_clue
\* has returned carries a score in 0..100; a reply with a score outside
\* 0..100 is not accepted.
C25_ScoresInRange ==
    \A i \in DOMAIN rank.ranked : rank.ranked[i].score \in 0..100

----------------------------------------------------------------------------
(* Properties of the clue branch, under SpecClues.                         *)

IsPrefix(s, t) == Len(s) <= Len(t) /\ SubSeq(t, 1, Len(s)) = s

\* the location or informant (or the dead_end marker) an entry names
Identity(entry) == <<entry.type, entry.location>>

\* C23 as stated: the clues the investigator has accumulated only grow at
\* the end, and no two entries name the same location or informant, the
\* dead_end marker included.
C23_AppendOnlyUnique ==
    /\ [][IsPrefix(investigator.clues, investigator'.clues)]_vars
    /\ [](\A i, j \in DOMAIN investigator.clues :
             i # j => Identity(investigator.clues[i])
                         # Identity(investigator.clues[j]))

\* no call is in progress and every response has been processed
BetweenIterations == top.op = "idle" /\ top.ret = <<>>

Clues(info) == {i \in DOMAIN info.clues : info.clues[i].type # "dead_end"}

\* C29: between two iterations of the clue branch clues and clue_path have
\* the same length, the number of iterations performed, entry for entry
\* about the same response, and as many of the entries are clues (not
\* dead_end markers) as returned_clues has members.
C29_SameLength ==
    /\ Len(investigator.clues) = Len(investigator.clue_path)
    /\ BetweenIterations =>
          /\ Len(investigator.clues) = top.calls
          /\ \A i \in DOMAIN investigator.clues :
                /\ investigator.clue_path[i] = PathEntry(top.log[i].ret)
                /\ investigator.clues[i] = ClueText(top.log[i].ret)
          /\ Cardinality(Clues(investigator))
                = Cardinality(referee.returned_clues)

\* three iterations on a case with two clues: the two clues, then a dead_end
C29_Witness ==
    /\ BetweenIterations
    /\ Len(referee.clues) = 2
    /\ Len(investigator.clues) = 3
    /\ investigator.clues[1].description # investigator.clues[2].description
    /\ investigator.clues[3].type = "dead_end"
    /\ referee.returned_clues = {0, 1}

----------------------------------------------------------------------------
(* Properties of the newspaper review, under SpecNewspapers.               *)

----------------------------------------------------------------------------
(* Properties of the result artifact, under SpecLog.                       *)

\* _log_evaluation_results has returned or has been left by an exception
LogEnded == top.op = "aborted" \/ (top.op = "idle" /\ top.calls = 1)

\* C27: the result artifact is written in full and once: it is opened at
\* most once, it is written only when every question has been scored, and
\* once the logging has ended, by its return or by a fatal error, a file that
\* exists holds every per-question score followed by the final theory, the
\* solution and the total.
C27_WrittenInFull ==
    /\ artifact.opened <= 1
    /\ artifact.exists => evaluation.pc = "returned"
    /\ artifact.exists /\ LogEnded =>
         artifact.written =
             QuestionEntries(evaluation.evaluation_results,
                             Len(evaluation.evaluation_results))
             \o <<TheoryEntry, SolutionEntry,
                  TotalEntry(evaluation.total_score)>>

----------------------------------------------------------------------------
(* Properties of the investigation, under Spec.                            *)

\* _post_response has raised the unavailability error
Unavailable == pr.pc = "raised" /\ pr.exc = "Exception"

C11_ReturnsCategory ==
    choice.pc \in {"returned", "raised"}
        => choice.pc = "returned" /\ choice.ret \in Range(Categories)

\* the fatal conditions: the transport error of _post, the unavailability
\* error of _post_response and the validation error of the controller
FatalErrors == {"TypeError", "Exception", "ValueError"}
FatalAbort == ctl.pc = "raised" /\ ctl.exc \in FatalErrors
RunEnded == run.pc \in {"aborted", "exited"}

\* C14 as stated: a run that has ended has either aborted on a fatal error
\* or gone from ITERATING through EVALUATING to DONE.
C14_PhaseOrder ==
    RunEnded => FatalAbort \/ run.phase = "DONE"

\* C15 as stated: never more than max_iterations iterations; and a run that
\* has ended without a fatal error and without best_choice returning the
\* solution category has performed max_iterations iterations and entered
\* EVALUATING.
C15_LoopBound ==
    /\ run.iteration < run.max_iterations
    /\ (RunEnded /\ ~FatalAbort /\ choice.ret # "solution")
          => /\ run.iteration = run.max_iterations - 1
             /\ run.phase \in {"EVALUATING", "DONE"}

\* _conduct_investigation_iteration, lines 83-98: the branch taken for the
\* choice best_choice returned; "newspapers" is looked for first, then
\* "solution", and every other choice is a request for a clue
Branches == {"newspapers", "solution", "clue"}
Dispatch(category) ==
    IF category = "newspapers" THEN "newspapers"
    ELSE IF category = "solution" THEN "solution"
    ELSE "clue"

\* the four candidate actions of the iteration have their scores
IterationScored ==
    run.pc \in {"best_choice", "aborted"} /\ Len(choice.ans) = Len(Categories)

\* C22 as stated: an iteration whose candidate actions have been scored
\* takes exactly one of the three branches, the one of the category
\* best_choice returned; and when that is the solution branch no clue has
\* been served to the investigator and no newspaper has been reviewed in it.
C22_OneBranch ==
    IterationScored =>
        /\ choice.pc = "returned"
        /\ Dispatch(choice.ret) \in Branches
        /\ Dispatch(choice.ret) = "solution" =>
              /\ referee.returned_clues = {}
              /\ investigator.clues = <<>>
              /\ investigator.newspaper_review_count = 0

\* C26 as stated, its last part: every run ends, DONE or aborted.
C26_Terminates == <>RunEnded

\* the assignments of integer scores to the four candidate actions
ChoiceScores == {0, 50, 100}
IntScores == [1..Len(Categories) -> [type : {"int"}, val : ChoiceScores]]
Highest(ans) == CHOOSE m \in {ans[i].val : i \in DOMAIN ans} :
                    \A i \in DOMAIN ans : ans[i].val <= m
FirstHighest(ans) == First({i \in DOMAIN ans : ans[i].val = Highest(ans)})

----------------------------------------------------------------------------
(* Properties of the final evaluation, under SpecEvaluate.                 *)

RECURSIVE SumOf(_, _)
SumOf(seq, field) ==
    IF seq = <<>> THEN 0
    ELSE seq[1][field] + SumOf(Tail(seq), field)

\* C13 as stated: every question whose confidence K (an integer in 0..100)
\* the controller has returned gets the score K / 100 * P for its P points
\* (scores are in hundredths of a point here), the total is the sum of these
\* scores, and it never exceeds the sum of the points of all questions.
C13_QuestionScores ==
    LET results == evaluation.evaluation_results IN
      /\ Len(results) = evaluation.accepted
      /\ \A i \in DOMAIN results :
            /\ results[i].points = referee.questions[i].points
            /\ \E K \in 0..100 : results[i].score = K * results[i].points
      /\ evaluation.total_score = SumOf(results, "score")
      /\ evaluation.total_score <= 100 * SumOf(referee.questions, "points")

\* evaluate_answer has ended, and not on an error of the client or of the
\* controller
EvaluationEnded ==
    /\ evaluation.pc \in {"returned", "raised", "aborted"}
    /\ ctl.pc # "raised"

\* C21 as stated: evaluate_answer produces one evaluation per question of
\* the case, in the order of the questions, from a prompt that pairs
\* question i with true answer i and the investigator's answer i, whatever
\* the lengths of the three lists.
C21_OnePerQuestion ==
    EvaluationEnded =>
        /\ evaluation.pc = "returned"
        /\ Len(evaluation.evaluation_results) = Len(referee.questions)
        /\ evaluation.prompts =
              [i \in 1..Len(referee.questions) |-> EvaluationPrompt(i - 1)]
        /\ \A i \in DOMAIN evaluation.evaluation_results :
              evaluation.evaluation_results[i].points = referee.questions[i].points

----------------------------------------------------------------------------
(* Properties of the extraction, under SpecExtract.                        *)

\* C16 as stated: eval_json never raises; it returns False when the text has
\* no fragment with the key and when the repaired fragment does not parse.
C16_NeverRaises ==
    /\ ~(extract.fn = "eval_json" /\ extract.pc = "raised")
    /\ (extract.fn = "eval_json" /\ extract.pc = "evaluated") =>
          /\ extract.fragment = <<>> => ~extract.ok
          /\ ~Loads(fix_json(extract.fragment)).ok => ~extract.ok

\* C17 as stated: when the record of a successful extraction is serialized
\* again, eval_json accepts that text and ret_json gives the same record.
C17_Idempotent ==
    (extract.round = 2 /\ extract.pc \in {"evaluated", "extracted"}) =>
        /\ extract.ok
        /\ extract.pc = "extracted" => extract.record = extract.first

\* where the fragments with the key end
FragmentEnds(t, key) ==
    {FirstAt(t, "}", p + 1) : p \in FragmentStarts(t, key)}

\* C19 as stated: when the text holds several fragments with the key, the
\* one eval_json and ret_json work on is the last: it ends at the last
\* closing brace that ends such a fragment.
C19_LastFragment ==
    LET t == extract.text
        ends == FragmentEnds(t, extract.key)
    IN  (extract.fn # "none" /\ Cardinality(ends) >= 2) =>
           /\ extract.fragment # <<>>
           /\ extract.fragment[1] = "{"
           /\ \E p \in FragmentStarts(t, extract.key) :
                 /\ FirstAt(t, "}", p + 1) = Last(ends)
                 /\ extract.fragment = FragmentFrom(t, p, extract.key)

====
